---- MODULE Spec2Model ----
(***************************************************************************)
(* Contiguous memory allocator (allocator.c): an ordered list of blocks    *)
(* covering [0, total_memory_size), driven by a line-oriented command      *)
(* loop (RQ, RL, C, STAT, X).                                              *)
(*                                                                         *)
(* The singly linked list memory_head -> ... -> NULL is a sequence of      *)
(* block records; a MemoryBlock* is an index into it and NULL is 0.        *)
(* A C string is the sequence of its characters before the terminator;     *)
(* characters are one-character strings.                                   *)
(***************************************************************************)
EXTENDS Integers, Sequences, FiniteSets, TLC

(* ---------------- bounds of the model ---------------- *)

\* the total memory size given on the command line
MaxMem == 3
\* the block list is explored up to this many blocks
MaxBlocks == 3
\* length of the long process id of the input alphabet
LongLen == 100

(* ---------------- program constants ---------------- *)

\* #define MAX_MEMORY (4ULL * 1024 * 1024)
MAX_MEMORY == 4 * 1024 * 1024
\* char process_id[100]
ID_BUF == 100
\* char command[256]
CMD_BUF == 256
\* stands for every size_t value above MAX_MEMORY that a negative int
\* converts to ((size_t)-1 = 2^64-1 ...): larger than every block size
SIZE_T_HUGE == 2147483647

NULL == 0

(* ---------------- strings ---------------- *)

Digits == {"0", "1", "2", "3", "4", "5", "6", "7", "8", "9"}

DigitVal(c) ==
    CASE c = "0" -> 0 [] c = "1" -> 1 [] c = "2" -> 2 [] c = "3" -> 3
      [] c = "4" -> 4 [] c = "5" -> 5 [] c = "6" -> 6 [] c = "7" -> 7
      [] c = "8" -> 8 [] c = "9" -> 9

DigitChar(d) ==
    CASE d = 0 -> "0" [] d = 1 -> "1" [] d = 2 -> "2" [] d = 3 -> "3"
      [] d = 4 -> "4" [] d = 5 -> "5" [] d = 6 -> "6" [] d = 7 -> "7"
      [] d = 8 -> "8" [] d = 9 -> "9"

\* decimal text of a natural number, as a user types it
RECURSIVE Dec(_)
Dec(n) == IF n < 10 THEN <<DigitChar(n)>>
          ELSE Dec(n \div 10) \o <<DigitChar(n % 10)>>

FREE == <<"F", "R", "E", "E">>
UNUSED == <<"U", "n", "u", "s", "e", "d">>

(* ---------------- strtok ---------------- *)

\* first position >= pos holding a character outside delims
RECURSIVE SkipDelims(_, _, _)
SkipDelims(buf, pos, delims) ==
    IF pos > Len(buf) THEN pos
    ELSE IF buf[pos] \in delims THEN SkipDelims(buf, pos + 1, delims)
    ELSE pos

\* first position >= pos holding a character of delims (or the end)
RECURSIVE ScanToken(_, _, _)
ScanToken(buf, pos, delims) ==
    IF pos > Len(buf) THEN pos
    ELSE IF buf[pos] \in delims THEN pos
    ELSE ScanToken(buf, pos + 1, delims)

\* strtok continuing at the saved position pos: the token (<<>> for a NULL
\* return, a token is never empty) and the position saved for the next call
strtok(buf, pos, delims) ==
    LET s == SkipDelims(buf, pos, delims)
        e == ScanToken(buf, s, delims)
    IN IF s > Len(buf)
       THEN [tok |-> <<>>, next |-> s]
       ELSE [tok |-> SubSeq(buf, s, e - 1),
             next |-> IF e > Len(buf) THEN e ELSE e + 1]

(* ---------------- atoi and the cast to size_t ---------------- *)

RECURSIVE AtoiDigits(_, _, _)
AtoiDigits(s, i, acc) ==
    IF i > Len(s) THEN acc
    ELSE IF s[i] \notin Digits THEN acc
    ELSE AtoiDigits(s, i + 1, acc * 10 + DigitVal(s[i]))

\* atoi: leading white space, an optional sign, then the digits up to the
\* first character that is not one; 0 when there are no digits
atoi(s) ==
    LET i == SkipDelims(s, 1, {" ", "\n"})
        signed == i <= Len(s) /\ s[i] \in {"-", "+"}
        j == IF signed THEN i + 1 ELSE i
        v == AtoiDigits(s, j, 0)
    IN IF signed /\ s[i] = "-" THEN 0 - v ELSE v

\* (size_t)n for an int n
SizeT(n) == IF n < 0 THEN SIZE_T_HUGE ELSE n

(* ---------------- blocks ---------------- *)

Block(start, size, alloc, pid) ==
    [start_address |-> start, size |-> size,
     is_allocated |-> alloc, process_id |-> pid]

\* initializeMemory: one free block spanning the whole memory
initializeMemory(memory_size) ==
    <<Block(0, memory_size, 0, FREE)>>

\* strncpy(block->process_id, process_id, sizeof(block->process_id) - 1):
\* an id shorter than 99 characters is stored whole and terminated; of a
\* longer one 99 characters are stored and no terminator is written, so
\* the string read back runs into byte 99 of the buffer and beyond, which
\* nothing initialises: tail is what a read finds there (<<>> when byte 99
\* happens to be 0)
strncpyId(process_id, tail) ==
    IF Len(process_id) < ID_BUF - 1 THEN process_id
    ELSE SubSeq(process_id, 1, ID_BUF - 1) \o tail

\* strcmp(a, b) == 0
strcmpEq(a, b) == a = b

(* ---------------- placement strategies ---------------- *)

RECURSIVE firstFitScan(_, _, _)
firstFitScan(head, size, current) ==
    IF current > Len(head) THEN NULL
    ELSE IF head[current].is_allocated = 0 /\ head[current].size >= size
         THEN current
    ELSE firstFitScan(head, size, current + 1)

\* firstFit without the size test: the first free block, whatever its size
RECURSIVE firstFreeScan(_, _)
firstFreeScan(head, current) ==
    IF current > Len(head) THEN NULL
    ELSE IF head[current].is_allocated = 0 THEN current
    ELSE firstFreeScan(head, current + 1)

firstFitAnyFree(head, size) == firstFreeScan(head, 1)

\* firstFit that keeps scanning: the last free block that is large enough
RECURSIVE firstFitScanLast(_, _, _, _)
firstFitScanLast(head, size, current, found) ==
    IF current > Len(head) THEN found
    ELSE IF head[current].is_allocated = 0 /\ head[current].size >= size
         THEN firstFitScanLast(head, size, current + 1, current)
    ELSE firstFitScanLast(head, size, current + 1, found)

firstFitLast(head, size) == firstFitScanLast(head, size, 1, NULL)

\* firstFit with > in place of >=: a block of exactly the size is passed over
RECURSIVE firstFitScanStrict(_, _, _)
firstFitScanStrict(head, size, current) ==
    IF current > Len(head) THEN NULL
    ELSE IF head[current].is_allocated = 0 /\ head[current].size > size
         THEN current
    ELSE firstFitScanStrict(head, size, current + 1)

firstFitStrict(head, size) == firstFitScanStrict(head, size, 1)

firstFit(head, size) == firstFitScan(head, size, 1)

RECURSIVE bestFitScan(_, _, _, _)
bestFitScan(head, size, current, best) ==
    IF current > Len(head) THEN best
    ELSE IF /\ head[current].is_allocated = 0
            /\ head[current].size >= size
            /\ (best = NULL \/ head[current].size < head[best].size)
         THEN bestFitScan(head, size, current + 1, current)
    ELSE bestFitScan(head, size, current + 1, best)

\* bestFit with <= in place of <: the last of several smallest blocks
RECURSIVE bestFitScanLast(_, _, _, _)
bestFitScanLast(head, size, current, best) ==
    IF current > Len(head) THEN best
    ELSE IF /\ head[current].is_allocated = 0
            /\ head[current].size >= size
            /\ (best = NULL \/ head[current].size <= head[best].size)
         THEN bestFitScanLast(head, size, current + 1, current)
    ELSE bestFitScanLast(head, size, current + 1, best)

bestFitLast(head, size) == bestFitScanLast(head, size, 1, NULL)


bestFit(head, size) == bestFitScan(head, size, 1, NULL)

RECURSIVE worstFitScan(_, _, _, _)
worstFitScan(head, size, current, worst) ==
    IF current > Len(head) THEN worst
    ELSE IF /\ head[current].is_allocated = 0
            /\ head[current].size >= size
            /\ (worst = NULL \/ head[current].size > head[worst].size)
         THEN worstFitScan(head, size, current + 1, current)
    ELSE worstFitScan(head, size, current + 1, worst)

\* worstFit with >= in place of >: the last of several largest blocks
RECURSIVE worstFitScanLast(_, _, _, _)
worstFitScanLast(head, size, current, worst) ==
    IF current > Len(head) THEN worst
    ELSE IF /\ head[current].is_allocated = 0
            /\ head[current].size >= size
            /\ (worst = NULL \/ head[current].size >= head[worst].size)
         THEN worstFitScanLast(head, size, current + 1, current)
    ELSE worstFitScanLast(head, size, current + 1, worst)

worstFitLast(head, size) == worstFitScanLast(head, size, 1, NULL)


worstFit(head, size) == worstFitScan(head, size, 1, NULL)

\* the switch of requestMemory: block stays NULL for any other character
selectBlock(head, size, strategy) ==
    CASE strategy = "F" -> firstFit(head, size)
      [] strategy = "B" -> bestFit(head, size)
      [] strategy = "W" -> worstFit(head, size)
      [] OTHER -> NULL

(* ---------------- requestMemory ---------------- *)

\* allocateBlock with the remainder left at the candidate's own start
allocateBlockSameStart(head, block, process_id, size, tail) ==
    LET b == head[block]
        owned == Block(b.start_address,
                       IF b.size > size THEN size ELSE b.size,
                       1, strncpyId(process_id, tail))
        new_block == Block(b.start_address, b.size - size, 0, FREE)
    IN SubSeq(head, 1, block - 1)
       \o (IF b.size > size THEN <<owned, new_block>> ELSE <<owned>>)
       \o SubSeq(head, block + 1, Len(head))

\* the list after the candidate block was taken: split when it is larger
\* than the request, then marked allocated and given the id
allocateBlock(head, block, process_id, size, tail) ==
    LET b == head[block]
        owned == Block(b.start_address,
                       IF b.size > size THEN size ELSE b.size,
                       1, strncpyId(process_id, tail))
        new_block == Block(b.start_address + size, b.size - size, 0, FREE)
    IN SubSeq(head, 1, block - 1)
       \o (IF b.size > size THEN <<owned, new_block>> ELSE <<owned>>)
       \o SubSeq(head, block + 1, Len(head))

Message(msg, pid, size, addr, entries) ==
    [msg |-> msg, pid |-> pid, size |-> size, addr |-> addr,
     entries |-> entries]

requestMemory(head, process_id, size, strategy, tail) ==
    LET block == selectBlock(head, size, strategy)
    IN IF block # NULL
       THEN [head |-> allocateBlock(head, block, process_id, size, tail),
             block |-> block,
             out |-> Message("Allocated", process_id, size,
                             head[block].start_address, <<>>)]
       ELSE [head |-> head,
             block |-> NULL,
             out |-> Message("InsufficientSpace", <<>>, 0, 0, <<>>)]

(* ---------------- releaseMemory ---------------- *)

\* findOwned without the is_allocated test: the id alone decides
RECURSIVE findById(_, _, _)
findById(head, process_id, current) ==
    IF current > Len(head) THEN NULL
    ELSE IF strcmpEq(head[current].process_id, process_id) THEN current
    ELSE findById(head, process_id, current + 1)

\* the while loop's search: the first allocated block whose id compares
\* equal, NULL when the list ends
RECURSIVE findOwned(_, _, _)
findOwned(head, process_id, current) ==
    IF current > Len(head) THEN NULL
    ELSE IF /\ head[current].is_allocated # 0
            /\ strcmpEq(head[current].process_id, process_id)
         THEN current
    ELSE findOwned(head, process_id, current + 1)

RemoveAt(head, i) == SubSeq(head, 1, i - 1) \o SubSeq(head, i + 1, Len(head))

\* mergePrev that never merges
mergePrevNever(head, current) == [head |-> head, current |-> current]

\* if (prev && !prev->is_allocated): prev absorbs current, current = prev
mergePrev(head, current) ==
    IF current > 1 /\ head[current - 1].is_allocated = 0
    THEN [head |-> RemoveAt([head EXCEPT ![current - 1].size =
                                 @ + head[current].size], current),
          current |-> current - 1]
    ELSE [head |-> head, current |-> current]

\* mergeNext that never merges
mergeNextNever(head, current) == head

\* if (current->next && !current->next->is_allocated): current absorbs next
mergeNext(head, current) ==
    IF current < Len(head) /\ head[current + 1].is_allocated = 0
    THEN RemoveAt([head EXCEPT ![current].size =
                       @ + head[current + 1].size], current + 1)
    ELSE head

\* freeBlock that leaves the id of the released process in the block
freeBlockKeepId(head, current) ==
    LET freed == [head EXCEPT ![current].is_allocated = 0]
        m == mergePrev(freed, current)
    IN mergeNext(m.head, m.current)


freeBlock(head, current) ==
    LET freed == [head EXCEPT ![current].is_allocated = 0,
                              ![current].process_id = FREE]
        m == mergePrev(freed, current)
    IN mergeNext(m.head, m.current)

releaseMemory(head, process_id) ==
    LET current == findOwned(head, process_id, 1)
    IN IF current # NULL
       THEN [head |-> freeBlock(head, current),
             block |-> current,
             out |-> Message("Released", process_id, 0, 0, <<>>)]
       ELSE [head |-> head,
             block |-> NULL,
             out |-> Message("NotFound", process_id, 0, 0, <<>>)]

(* ---------------- compactMemory ---------------- *)

\* first loop: every allocated block moves to next_free_address
RECURSIVE slideBlocks(_, _, _, _)
slideBlocks(head, current, next_free_address, last_allocated_block) ==
    IF current > Len(head)
    THEN [head |-> head, next_free_address |-> next_free_address,
          last_allocated_block |-> last_allocated_block]
    ELSE IF head[current].is_allocated # 0
         THEN slideBlocks([head EXCEPT ![current].start_address =
                               next_free_address],
                          current + 1,
                          next_free_address + head[current].size,
                          current)
    ELSE slideBlocks(head, current + 1, next_free_address,
                     last_allocated_block)

\* second loop: every free block is unlinked; also the position that
\* last_allocated_block has in the list that remains
RECURSIVE removeFree(_, _, _, _)
removeFree(head, current, kept, last_allocated_block) ==
    IF current > Len(head)
    THEN [head |-> kept, last |-> NULL]
    ELSE LET keep == head[current].is_allocated # 0
             rest == removeFree(head, current + 1,
                                IF keep THEN Append(kept, head[current])
                                ELSE kept,
                                last_allocated_block)
         IN IF current = last_allocated_block
            THEN [head |-> rest.head, last |-> Len(kept) + 1]
            ELSE rest

\* appendFree without the test next_free_address < total_memory_size
appendFreeAlways(head, last, next_free_address, total) ==
    LET free_block == Block(next_free_address,
                            total - next_free_address, 0, FREE)
    IN IF last # NULL
       THEN SubSeq(head, 1, last) \o <<free_block>>
       ELSE <<free_block>>

\* appendFree that makes the free block the head whatever was allocated
appendFreeAtHead(head, last, next_free_address, total) ==
    IF next_free_address < total
    THEN <<Block(next_free_address, total - next_free_address, 0, FREE)>>
    ELSE IF last # NULL THEN SubSeq(head, 1, last) ELSE head

\* the end of compactMemory: the trailing free block, or the terminator
appendFree(head, last, next_free_address, total) ==
    IF next_free_address < total
    THEN LET free_block == Block(next_free_address,
                                 total - next_free_address, 0, FREE)
         IN IF last # NULL
            THEN SubSeq(head, 1, last) \o <<free_block>>
            ELSE <<free_block>>
    ELSE IF last # NULL THEN SubSeq(head, 1, last) ELSE head

compactMemory(head, total) ==
    LET s == slideBlocks(head, 1, 0, NULL)
        r == removeFree(s.head, 1, <<>>, s.last_allocated_block)
    IN appendFree(r.head, r.last, s.next_free_address, total)

(* ---------------- reportStatus ---------------- *)

\* current->start_address + current->size - 1, computed in size_t: for a
\* block of size 0 at address 0 it wraps to (size_t)-1, which %u prints as
\* a number above every address
endAddress(b) ==
    IF b.start_address + b.size - 1 < 0 THEN SIZE_T_HUGE
    ELSE b.start_address + b.size - 1

statusEntry(b) ==
    [start |-> b.start_address, end |-> endAddress(b),
     label |-> IF b.is_allocated # 0 THEN b.process_id ELSE UNUSED]

reportStatus(head) == [i \in 1..Len(head) |-> statusEntry(head[i])]

(* ---------------- the input alphabet ---------------- *)

RQ == <<"R", "Q">>
RL == <<"R", "L">>
C == <<"C">>
STAT == <<"S", "T", "A", "T">>
X == <<"X">>

LongPid == [i \in 1..LongLen |-> "a"]

\* what a user of the plain kind types: short ids, decimal sizes, the
\* three strategies
ShortPids == {<<"A">>, <<"B">>}
PlainSizes == {Dec(n) : n \in 0..MaxMem}
PlainStrats == {<<"F">>, <<"B">>, <<"W">>}

\* what a user of the other kind types: an id longer than the id field of
\* a block, sizes that are negative or no number, an unknown strategy
LongPids == {LongPid}
OddSizes == PlainSizes \cup {<<"-", "1">>, <<"x">>}
OddStrats == PlainStrats \cup {<<"Z">>}

\* what an id stored without its terminator is followed by in the block
Tails(process_id) ==
    IF Len(process_id) < ID_BUF - 1 THEN {<<>>} ELSE {<<>>, <<"a">>}

\* a line as the user types it: the fields, single spaces, the newline
RECURSIVE Join(_)
Join(toks) == IF Len(toks) = 0 THEN <<>>
              ELSE IF Len(toks) = 1 THEN toks[1]
              ELSE toks[1] \o <<" ">> \o Join(Tail(toks))

Line(toks) == Join(toks) \o <<"\n">>

RQLines(pids, sizes, strats) ==
    {Line(<<RQ, p, s, f>>) : p \in pids, s \in sizes, f \in strats}

RLLines(pids) == {Line(<<RL, p>>) : p \in pids \cup {FREE}}

ShortLines == {Line(<<RQ>>), Line(<<RQ, <<"A">>>>),
               Line(<<RQ, <<"A">>, <<"1">>>>), Line(<<RL>>)}

OtherLines == {Line(<<C>>), Line(<<STAT>>), Line(<<X>>),
               Line(<<<<"Q">>>>), Line(<<>>)}

\* the lines fgets(command, sizeof(command), stdin) delivers whole
Lines(pids, sizes, strats) ==
    {line \in RQLines(pids, sizes, strats) \cup RLLines(pids)
                  \cup ShortLines \cup OtherLines : Len(line) < CMD_BUF}

(* ---------------- executeCommand: the tokens ---------------- *)

\* the strtok calls of executeCommand on one line: the verb, the three
\* fields an RQ reads and the field an RL reads (<<>> for NULL)
tokens(line) ==
    LET token == strtok(line, 1, {" ", "\n"})
        process_id == strtok(line, token.next, {" "})
        size_str == strtok(line, process_id.next, {" "})
        strategy_str == strtok(line, size_str.next, {" ", "\n"})
        rl_id == strtok(line, token.next, {" ", "\n"})
    IN [token |-> token.tok, process_id |-> process_id.tok,
        size_str |-> size_str.tok, strategy_str |-> strategy_str.tok,
        rl_id |-> rl_id.tok]

\* the commands the input can hold, tokenised
ShortCommands ==
    {tokens(line) : line \in Lines(ShortPids, PlainSizes, PlainStrats)}
LongCommands ==
    {tokens(line) : line \in Lines(LongPids, OddSizes, OddStrats)}

(* ---------------- state ---------------- *)

VARIABLES
    total_memory_size,  \* size_t total_memory_size
    memory_head,        \* the block list, from memory_head to NULL
    pc,                 \* main: "loop" in while (1), "exited" after exit(0)
    eof,                \* stdin is exhausted: fgets returns NULL from now on
    last,               \* the call the last iteration made into the allocator
    out,                \* what the last iteration printed after the prompt
    before,             \* the block list when the last iteration started
    prior,              \* the iteration before the last, when the last
                        \* one repeats or undoes it: a compaction before a
                        \* compaction, a successful request before the
                        \* release of the same id
    input               \* which kind of user types this session's lines

vars == <<total_memory_size, memory_head, pc, eof, last, out, before, prior,
          input>>

Commands == IF input = "long" THEN LongCommands ELSE ShortCommands

Call(op, pid, size, strategy, block) ==
    [op |-> op, pid |-> pid, size |-> size, strategy |-> strategy,
     block |-> block]

NoCall == Call("none", <<>>, 0, "", NULL)

NoMessage == Message("", <<>>, 0, 0, <<>>)

Prior(op, block, head) == [op |-> op, block |-> block, head |-> head]

NoPrior == Prior("none", NULL, <<>>)

\* main: the size argument passed the checks of lines 317-331
Start ==
    /\ total_memory_size = MaxMem
    /\ total_memory_size # 0 /\ total_memory_size <= MAX_MEMORY
    /\ memory_head = initializeMemory(total_memory_size)
    /\ pc = "loop"
    /\ eof = FALSE
    /\ last = NoCall
    /\ out = NoMessage
    /\ before = memory_head
    /\ prior = NoPrior

Init == Start /\ input = "short"

InitLong == Start /\ input = "long"

(* ---------------- executeCommand ---------------- *)

\* fgets delivered a line
Reads ==
    /\ pc = "loop"
    /\ ~eof

rqComplete(cmd) ==
    cmd.process_id # <<>> /\ cmd.size_str # <<>> /\ cmd.strategy_str # <<>>

\* RQ with its three fields: requestMemory(process_id, size, strategy)
RQCall(cmd, tail) ==
    /\ Reads
    /\ cmd.token = RQ
    /\ rqComplete(cmd)
    /\ LET size == SizeT(atoi(cmd.size_str))
           strategy == cmd.strategy_str[1]
           r == requestMemory(memory_head, cmd.process_id, size, strategy,
                              tail)
       IN /\ Len(r.head) <= MaxBlocks
          /\ memory_head' = r.head
          /\ last' = Call("RQ", cmd.process_id, size, strategy, r.block)
          /\ out' = r.out
    /\ before' = memory_head
    /\ prior' = NoPrior
    /\ UNCHANGED <<total_memory_size, pc, eof, input>>

\* RQ with a field missing
RQInvalid(cmd) ==
    /\ Reads
    /\ cmd.token = RQ
    /\ ~rqComplete(cmd)
    /\ last' = NoCall
    /\ out' = Message("InvalidRQ", <<>>, 0, 0, <<>>)
    /\ before' = memory_head
    /\ prior' = NoPrior
    /\ UNCHANGED <<total_memory_size, memory_head, pc, eof, input>>

\* RL with its field: releaseMemory(process_id)
RLCall(cmd) ==
    /\ Reads
    /\ cmd.token = RL
    /\ cmd.rl_id # <<>>
    /\ LET r == releaseMemory(memory_head, cmd.rl_id)
       IN /\ memory_head' = r.head
          /\ last' = Call("RL", cmd.rl_id, 0, "", r.block)
          /\ out' = r.out
    /\ before' = memory_head
    /\ prior' = IF /\ last.op = "RQ"
                   /\ last.block # NULL
                   /\ last.pid = cmd.rl_id
                THEN Prior("RQ", last.block, before)
                ELSE NoPrior
    /\ UNCHANGED <<total_memory_size, pc, eof, input>>

\* RL without a field
RLInvalid(cmd) ==
    /\ Reads
    /\ cmd.token = RL
    /\ cmd.rl_id = <<>>
    /\ last' = NoCall
    /\ out' = Message("InvalidRL", <<>>, 0, 0, <<>>)
    /\ before' = memory_head
    /\ prior' = NoPrior
    /\ UNCHANGED <<total_memory_size, memory_head, pc, eof, input>>

\* C: compactMemory()
Compact(cmd) ==
    /\ Reads
    /\ cmd.token = C
    /\ memory_head' = compactMemory(memory_head, total_memory_size)
    /\ last' = Call("C", <<>>, 0, "", NULL)
    /\ out' = Message("Compacted", <<>>, 0, 0, <<>>)
    /\ before' = memory_head
    /\ prior' = IF last.op = "C" THEN Prior("C", NULL, before) ELSE NoPrior
    /\ UNCHANGED <<total_memory_size, pc, eof, input>>

\* STAT: reportStatus()
Stat(cmd) ==
    /\ Reads
    /\ cmd.token = STAT
    /\ last' = Call("STAT", <<>>, 0, "", NULL)
    /\ out' = Message("Status", <<>>, 0, 0, reportStatus(memory_head))
    /\ before' = memory_head
    /\ prior' = NoPrior
    /\ UNCHANGED <<total_memory_size, memory_head, pc, eof, input>>

\* X: exit(0)
Exit(cmd) ==
    /\ Reads
    /\ cmd.token = X
    /\ pc' = "exited"
    /\ last' = NoCall
    /\ out' = NoMessage
    /\ before' = memory_head
    /\ prior' = NoPrior
    /\ UNCHANGED <<total_memory_size, memory_head, eof, input>>

\* any other line, the empty one included
InvalidCommand(cmd) ==
    /\ Reads
    /\ cmd.token \notin {RQ, RL, C, STAT, X}
    /\ last' = NoCall
    /\ out' = Message("InvalidCommand", <<>>, 0, 0, <<>>)
    /\ before' = memory_head
    /\ prior' = NoPrior
    /\ UNCHANGED <<total_memory_size, memory_head, pc, eof, input>>

\* fgets returns NULL: the iteration ends at continue, with no command
EndOfInput ==
    /\ pc = "loop"
    /\ eof' = TRUE
    /\ last' = NoCall
    /\ out' = NoMessage
    /\ before' = memory_head
    /\ prior' = NoPrior
    /\ UNCHANGED <<total_memory_size, memory_head, pc, input>>

Next ==
    \/ \E cmd \in Commands : \E tail \in Tails(cmd.process_id) : RQCall(cmd, tail)
    \/ \E cmd \in Commands : RQInvalid(cmd)
    \/ \E cmd \in Commands : RLCall(cmd)
    \/ \E cmd \in Commands : RLInvalid(cmd)
    \/ \E cmd \in Commands : Compact(cmd)
    \/ \E cmd \in Commands : Stat(cmd)
    \/ \E cmd \in Commands : Exit(cmd)
    \/ \E cmd \in Commands : InvalidCommand(cmd)
    \/ EndOfInput

Spec == Init /\ [][Next]_vars

SpecLong == InitLong /\ [][Next]_vars

(* ---------------- properties ---------------- *)

IsFree(b) == b.is_allocated = 0

IsOwned(b) == b.is_allocated # 0

Indices(head) == 1..Len(head)

\* the free blocks of head that can hold size bytes
Candidates(head, size) ==
    {i \in Indices(head) : IsFree(head[i]) /\ head[i].size >= size}

\* the blocks of head owned by process_id, as release compares ids
OwnedBy(head, process_id) ==
    {i \in Indices(head) : IsOwned(head[i]) /\ head[i].process_id = process_id}

RECURSIVE SumSizes(_, _)
SumSizes(head, n) == IF n = 0 THEN 0 ELSE SumSizes(head, n - 1) + head[n].size

\* C1: the block list, read in order, partitions [0, total_memory_size):
\* the first block starts at 0, each block ends where the next starts and
\* the last block ends at total_memory_size
C1_Partition ==
    /\ Len(memory_head) > 0
    /\ memory_head[1].start_address = 0
    /\ \A i \in 1..(Len(memory_head) - 1) :
           memory_head[i].start_address + memory_head[i].size
               = memory_head[i + 1].start_address
    /\ memory_head[Len(memory_head)].start_address
           + memory_head[Len(memory_head)].size = total_memory_size

\* a request split a block that lies between two others
C1_Witness ==
    /\ last.op = "RQ"
    /\ last.block = 2
    /\ Len(before) = 2
    /\ Len(memory_head) = 3
    /\ C1_Partition

\* C2: no two blocks adjacent in the list are both free
C2_NoAdjacentFree ==
    \A i \in 1..(Len(memory_head) - 1) :
        ~(IsFree(memory_head[i]) /\ IsFree(memory_head[i + 1]))

\* a release merged the freed block with free neighbours on both sides
C2_Witness ==
    /\ last.op = "RL"
    /\ last.block = 2
    /\ Len(before) = 3
    /\ IsFree(before[1]) /\ IsFree(before[3])
    /\ Len(memory_head) = 1
    /\ C2_NoAdjacentFree

\* C3: every block of the list has size > 0
C3_PositiveSizes ==
    \A i \in Indices(memory_head) : memory_head[i].size > 0

\* C4: a request made when no free block has size >= the requested size
\* reports InsufficientSpace and leaves the block list as it was
C4_InsufficientSpace ==
    (last.op = "RQ" /\ Candidates(before, last.size) = {})
        => (out.msg = "InsufficientSpace" /\ memory_head = before)

\* a request under a real strategy failed although a free block exists
C4_Witness ==
    /\ last.op = "RQ"
    /\ last.strategy = "F"
    /\ Candidates(before, last.size) = {}
    /\ \E i \in Indices(before) : IsFree(before[i]) /\ before[i].size > 0
    /\ out.msg = "InsufficientSpace"
    /\ memory_head = before

\* C5: a release made when no block is owned by the id reports NotFound and
\* leaves the block list as it was, also for the label of the free blocks
\* and for an id that was released before
C5_NotFound ==
    (last.op = "RL" /\ OwnedBy(before, last.pid) = {})
        => (out.msg = "NotFound" /\ memory_head = before)

\* the label of the free blocks was released while a free block carries it
C5_Witness ==
    /\ last.op = "RL"
    /\ last.pid = FREE
    /\ \E i \in Indices(before) :
           IsFree(before[i]) /\ before[i].process_id = FREE
    /\ \E i \in Indices(before) : IsOwned(before[i])
    /\ out.msg = "NotFound"
    /\ memory_head = before

\* the owned blocks of head, in order
OwnedBlocks(head) == SelectSeq(head, IsOwned)

\* C6: after compact the list is the previously owned blocks, in the same
\* order with the same owners and sizes, packed from address 0, followed by
\* one free block [cursor, total_memory_size) if the owned sizes sum to less
\* than total_memory_size and by no free block otherwise
C6_Compacted ==
    last.op = "C" =>
        LET owned == OwnedBlocks(before)
            cursor == SumSizes(owned, Len(owned))
        IN /\ Len(memory_head) =
                  Len(owned) + (IF cursor < total_memory_size THEN 1 ELSE 0)
           /\ \A i \in Indices(owned) :
                  memory_head[i] = [owned[i] EXCEPT
                                       !.start_address = SumSizes(owned, i - 1)]
           /\ cursor < total_memory_size =>
                  memory_head[Len(memory_head)] =
                      Block(cursor, total_memory_size - cursor, 0, FREE)
           /\ cursor + (IF cursor < total_memory_size
                        THEN memory_head[Len(memory_head)].size ELSE 0)
                  = total_memory_size

\* a compaction moved two owned blocks over a free gap in front of them
C6_Witness ==
    /\ last.op = "C"
    /\ Len(before) = 3
    /\ IsFree(before[1]) /\ before[1].size > 0
    /\ IsOwned(before[2]) /\ IsOwned(before[3])
    /\ before[2].process_id # before[3].process_id
    /\ Len(memory_head) = 3
    /\ memory_head[1].start_address = 0
    /\ IsFree(memory_head[3])

\* C7: a compaction that immediately follows a compaction leaves the block
\* list as the first one made it
C7_Idempotent ==
    (last.op = "C" /\ prior.op = "C") => memory_head = before

\* two compactions in a row, the first of which changed the list
C7_Witness ==
    /\ last.op = "C"
    /\ prior.op = "C"
    /\ prior.head # before
    /\ Len(before) >= 2
    /\ memory_head = before

FirstSmallest(head, size, block) ==
    /\ block \in Candidates(head, size)
    /\ \A j \in Candidates(head, size) :
           \/ head[j].size > head[block].size
           \/ head[j].size = head[block].size /\ j >= block

FirstLargest(head, size, block) ==
    /\ block \in Candidates(head, size)
    /\ \A j \in Candidates(head, size) :
           \/ head[j].size < head[block].size
           \/ head[j].size = head[block].size /\ j >= block

\* C9: a BestFit request selects, among the free blocks of size >= the
\* requested size, one of minimum size and of these the first in list
\* order; it selects nothing only if no free block is large enough
C9_BestFit ==
    (last.op = "RQ" /\ last.strategy = "B") =>
        IF Candidates(before, last.size) = {}
        THEN last.block = NULL
        ELSE FirstSmallest(before, last.size, last.block)

\* BestFit chose the first of two smallest candidates
C9_Witness ==
    /\ last.op = "RQ"
    /\ last.strategy = "B"
    /\ last.size > 0
    /\ last.block # NULL
    /\ \E j \in Candidates(before, last.size) :
           j > last.block /\ before[j].size = before[last.block].size
    /\ FirstSmallest(before, last.size, last.block)

\* C10: a WorstFit request selects, among the free blocks of size >= the
\* requested size, one of maximum size and of these the first in list
\* order; it selects nothing only if no free block is large enough
C10_WorstFit ==
    (last.op = "RQ" /\ last.strategy = "W") =>
        IF Candidates(before, last.size) = {}
        THEN last.block = NULL
        ELSE FirstLargest(before, last.size, last.block)

\* WorstFit chose the first of two largest candidates
C10_Witness ==
    /\ last.op = "RQ"
    /\ last.strategy = "W"
    /\ last.size > 0
    /\ last.block # NULL
    /\ \E j \in Candidates(before, last.size) :
           j > last.block /\ before[j].size = before[last.block].size
    /\ FirstLargest(before, last.size, last.block)

\* C11: a FirstFit request selects the free block of size >= the requested
\* size that comes first in the list, which is the one of lowest address;
\* it never selects an owned block, and it selects nothing only if no free
\* block is large enough
C11_FirstFit ==
    (last.op = "RQ" /\ last.strategy = "F") =>
        IF Candidates(before, last.size) = {}
        THEN last.block = NULL
        ELSE /\ last.block \in Candidates(before, last.size)
             /\ IsFree(before[last.block])
             /\ \A j \in Candidates(before, last.size) :
                    /\ j >= last.block
                    /\ before[j].start_address
                           >= before[last.block].start_address

\* FirstFit passed over a free block that was too small and an owned block,
\* and chose the first of the blocks behind them
C11_Witness ==
    /\ last.op = "RQ"
    /\ last.strategy = "F"
    /\ last.block # NULL
    /\ \E j \in 1..(last.block - 1) :
           IsFree(before[j]) /\ before[j].size > 0
                             /\ before[j].size < last.size
    /\ \E j \in 1..(last.block - 1) : IsOwned(before[j])
    /\ last.block \in Candidates(before, last.size)
    /\ \A j \in Candidates(before, last.size) : j >= last.block

\* C12: an RQ line with a missing field, a size that is no positive decimal
\* integer or a strategy other than F, B, W is answered by the format
\* error and makes no call into the request operation: every call the
\* command layer makes into it carries a size of at least 1 that the size
\* text denotes and one of the strategies F, B, W
C12_FormatError ==
    last.op = "RQ" =>
        /\ last.size >= 1
        /\ last.size # SIZE_T_HUGE
        /\ last.strategy \in {"F", "B", "W"}

\* C13: the blocks owned by one process id form at most one contiguous run:
\* between two blocks of the same owner there is no free block and no block
\* of another owner
C13_OneRunPerId ==
    \A i, j \in Indices(memory_head) :
        (/\ i < j
         /\ IsOwned(memory_head[i]) /\ IsOwned(memory_head[j])
         /\ memory_head[i].process_id = memory_head[j].process_id)
            => \A k \in (i + 1)..(j - 1) :
                   /\ IsOwned(memory_head[k])
                   /\ memory_head[k].process_id = memory_head[i].process_id

\* C14: the status report changes nothing and prints one entry per block,
\* in list order with ascending start addresses; an entry holds the start
\* of its block, the inclusive end start + size - 1, which is at least the
\* start, and as label the owner's id for an owned block and the unused
\* marker for a free block
C14_StatusReport ==
    last.op = "STAT" =>
        /\ memory_head = before
        /\ out.msg = "Status"
        /\ Len(out.entries) = Len(before)
        /\ \A i \in Indices(before) :
               /\ out.entries[i].start = before[i].start_address
               /\ out.entries[i].end
                      = before[i].start_address + before[i].size - 1
               /\ out.entries[i].end >= out.entries[i].start
               /\ out.entries[i].label =
                      (IF IsOwned(before[i]) THEN before[i].process_id
                       ELSE UNUSED)
        /\ \A i \in 1..(Len(before) - 1) :
               out.entries[i].start <= out.entries[i + 1].start

\* C15: a successful request of size bytes for pid on the candidate block
\* [s, s+n) changes only that block: when n = size the block is relabeled
\* as owned by pid in place and the block count stays; when n > size the
\* block becomes the owned block [s, s+size) and one new free block
\* [s+size, s+n) is inserted right behind it; every other block keeps its
\* start, size, owner and relative position
C15_RequestFrame ==
    (last.op = "RQ" /\ last.block # NULL) =>
        LET b == last.block
            s == before[b].start_address
            n == before[b].size
            front == SubSeq(before, 1, b - 1)
            back == SubSeq(before, b + 1, Len(before))
        IN /\ IsFree(before[b])
           /\ n >= last.size
           /\ n = last.size =>
                  /\ memory_head = front \o <<Block(s, n, 1, last.pid)>>
                                          \o back
                  /\ Len(memory_head) = Len(before)
           /\ n > last.size =>
                  /\ memory_head =
                         front \o <<Block(s, last.size, 1, last.pid),
                                    Block(s + last.size, n - last.size,
                                          0, FREE)>>
                               \o back
                  /\ Len(memory_head) = Len(before) + 1

\* C16: a successful release of pid frees the first block in list order
\* that pid owns and no later one; that block, its immediate predecessor
\* if free and its immediate successor if free are replaced by one free
\* block spanning their union; at most one block is removed on each side
\* and no other block changes
C16_ReleaseFrame ==
    (last.op = "RL" /\ last.block # NULL) =>
        LET k == last.block
            lo == IF k > 1 /\ IsFree(before[k - 1]) THEN k - 1 ELSE k
            hi == IF k < Len(before) /\ IsFree(before[k + 1]) THEN k + 1
                  ELSE k
            union == Block(before[lo].start_address,
                           SumSizes(before, hi) - SumSizes(before, lo - 1),
                           0, FREE)
        IN /\ out.msg = "Released"
           /\ k \in OwnedBy(before, last.pid)
           /\ \A j \in OwnedBy(before, last.pid) : j >= k
           /\ memory_head = SubSeq(before, 1, lo - 1) \o <<union>>
                                \o SubSeq(before, hi + 1, Len(before))
           /\ \A j \in OwnedBy(before, last.pid) :
                  j > k => /\ j > hi
                           /\ memory_head[j - (hi - lo)] = before[j]

\* a release freed the first of two blocks of the same owner and merged it
\* with the free block in front of it; the second block stayed owned
C16_Witness ==
    /\ last.op = "RL"
    /\ last.block = 2
    /\ Len(before) = 3
    /\ IsFree(before[1]) /\ before[1].size > 0
    /\ OwnedBy(before, last.pid) = {2, 3}
    /\ Len(memory_head) = 2
    /\ memory_head[1] = Block(0, before[1].size + before[2].size, 0, FREE)
    /\ memory_head[2] = before[3]

\* the bytes of head that no block owns
FreeBytes(head) ==
    total_memory_size - SumSizes(OwnedBlocks(head), Len(OwnedBlocks(head)))

\* C17: a request of size >= 1 under F, B or W that immediately follows a
\* compaction succeeds if and only if the size is at most the number of
\* free bytes, total_memory_size minus the sum of the owned sizes
C17_AfterCompact ==
    [][(/\ last.op = "C"
        /\ last'.op = "RQ"
        /\ last'.size >= 1
        /\ last'.strategy \in {"F", "B", "W"})
           => (last'.block # NULL <=> last'.size <= FreeBytes(memory_head))]_vars

\* a compaction has just gathered the free bytes of a fragmented list: a
\* request of some size n that no free block could hold before, though the
\* free bytes sufficed, now has a candidate, and the loop reads on
C17_Witness ==
    /\ last.op = "C"
    /\ Reads
    /\ FreeBytes(before) = FreeBytes(memory_head)
    /\ \E n \in 1..FreeBytes(before) :
           /\ Candidates(before, n) = {}
           /\ Candidates(memory_head, n) # {}
           /\ requestMemory(memory_head, <<"A">>, n, "B", <<>>).block # NULL

\* C18: a release of p that immediately follows a successful request of p
\* finds an owned block and reports success, never NotFound, and the id the
\* request stored in its block compares equal to p
C18_ReleaseFinds ==
    prior.op = "RQ" =>
        /\ last.block # NULL
        /\ out.msg = "Released"
        /\ strcmpEq(before[prior.block].process_id, last.pid)

\* C19: the command loop terminates on every finite input: once the input
\* stream is exhausted the loop has stopped, as it has after an X command,
\* and does not go on looping
C19_StopsAtEndOfInput ==
    eof => pc = "exited"

====
